---- MODULE Spec2Model ----
(***************************************************************************)
(* Model of the frame-upscaling orchestrator of video2x:                   *)
(*   bin/upscaler.py      Upscaler.run, _upscale_frames, _progress_bar      *)
(*   bin/waifu2x_caffe.py Waifu2xCaffe.upscale                              *)
(* Threads are modelled by program counters; every file-system call        *)
(* (listdir, move, mkdir) is one atomic step.  File names are sequences of *)
(* one-character strings so that the regular expression of the rename step *)
(* and the '.png' filter of the progress monitor are computed, not assumed.*)
(***************************************************************************)
EXTENDS Integers, Sequences, FiniteSets, TLC

\* ---------------------------------------------------------------- bounds
MaxThreads == 2
MaxFrames == 4

\* ------------------------------------------------------------- constants
MODELS_AVAILABLE ==
    {"upconv_7_anime_style_art_rgb", "upconv_7_photo", "anime_style_art_rgb",
     "photo", "anime_style_art_y", "upresnet10", "cunet"}

Drivers == {"waifu2x_caffe", "waifu2x_converter"}

Digits == {"0", "1", "2", "3", "4", "5", "6", "7", "8", "9"}

Min(a, b) == IF a < b THEN a ELSE b

SetMax(S) == CHOOSE x \in S : \A y \in S : y <= x

\* ------------------------------------------------------------ file names
PngExt == <<".", "p", "n", "g">>

DigitChar == <<"1", "2", "3", "4", "5", "6", "7", "8", "9">>

\* name stem the frame extractor gives frame number f: frame000<f>
Stem(f) == <<"f", "r", "a", "m", "e", "0", "0", "0", DigitChar[f]>>

\* name of the extracted frame f: frame000<f>.png
FrameName(f) == Stem(f) \o PngExt

\* f[-4:] == '.png'
IsPng(f) ==
    IF Len(f) >= 4 THEN SubSeq(f, Len(f) - 3, Len(f)) = PngExt ELSE f = PngExt

\* len([f for f in os.listdir(folder) if f[-4:] == '.png'])
CountPng(names) == Cardinality({f \in names : IsPng(f)})

\* ---------------------------------------------- re.sub of the rename step
At(s, p, c) == p >= 1 /\ p <= Len(s) /\ s[p] = c

\* position after the longest run of digits that starts at p (\d+, greedy)
DigitsEnd(s, p) ==
    CHOOSE q \in p..(Len(s) + 1) :
        /\ \A r \in p..(q - 1) : s[r] \in Digits
        /\ (q = Len(s) + 1 \/ s[q] \notin Digits)

\* a variant of TailEnd that accepts an integer ratio only: \[x(\d+)\]\.png
TailEndIntOnly(s, p) ==
    LET q == DigitsEnd(s, p + 2)
        a == IF At(s, q, "]") THEN q + 1 ELSE 0
    IN  IF /\ At(s, p, "[") /\ At(s, p + 1, "x") /\ q > p + 2 /\ a # 0
           /\ At(s, a, ".") /\ At(s, a + 1, "p") /\ At(s, a + 2, "n")
           /\ At(s, a + 3, "g")
        THEN a + 4 ELSE 0

\* \[x(\d+(\.\d+)?)\]\.png matched at position p: the position after the
\* match, 0 when there is no match
TailEnd(s, p) ==
    LET q == DigitsEnd(s, p + 2)
        r == DigitsEnd(s, q + 1)
        a == IF At(s, q, ".") /\ r > q + 1 /\ At(s, r, "]") THEN r + 1
             ELSE IF At(s, q, "]") THEN q + 1 ELSE 0
    IN  IF /\ At(s, p, "[") /\ At(s, p + 1, "x") /\ q > p + 2 /\ a # 0
           /\ At(s, a, ".") /\ At(s, a + 1, "p") /\ At(s, a + 2, "n")
           /\ At(s, a + 3, "g")
        THEN a + 4 ELSE 0

\* positions of a ']' after h behind which the tail of the pattern matches
CloseAfter(s, h) == {c \in (h + 1)..Len(s) : s[c] = "]" /\ TailEnd(s, c + 1) # 0}

\* _\[.*-.*\]\[x(\d+(\.\d+)?)\]\.png matched at position i (both .* greedy):
\* the position after the match, 0 when there is no match
MatchEnd(s, i) ==
    IF At(s, i, "_") /\ At(s, i + 1, "[")
    THEN LET H == {h \in (i + 2)..Len(s) : s[h] = "-" /\ CloseAfter(s, h) # {}}
         IN  IF H = {} THEN 0
             ELSE TailEnd(s, SetMax(CloseAfter(s, SetMax(H))) + 1)
    ELSE 0

RECURSIVE SubFrom(_, _, _)
\* re.sub(pattern, repl, s) from position i on: leftmost non-overlapping matches
SubFrom(s, i, repl) ==
    IF i > Len(s) THEN <<>>
    ELSE LET e == MatchEnd(s, i)
         IN  IF e # 0 THEN repl \o SubFrom(s, e, repl)
             ELSE <<s[i]>> \o SubFrom(s, i + 1, repl)

\* a variant of Renamed whose replacement drops the extension
RenamedDropExt(image) == SubFrom(image, 1, <<>>)

\* renamed = re.sub('_\[.*-.*\]\[x(\d+(\.\d+)?)\]\.png', '.png', image)
Renamed(image) == SubFrom(image, 1, PngExt)

\* --------------------------------------- suffixes the converter engine adds
SufMeta == <<"_", "[", "m", "e", "t", "a", "]", "[", "x", "2", ".", "0", "]">>
SufHyphen == <<"_", "[", "N", "S", "-", "L", "3", "]", "[", "x", "2", ".", "0", "]">>
SufHyphenInt == <<"_", "[", "N", "S", "-", "L", "3", "]", "[", "x", "2", "]">>
SufNone == <<>>

EngineSuffixes == {SufMeta, SufHyphen, SufHyphenInt, SufNone}

\* name the single-invocation engine gives the output of frame f
OutputName(f, suffix) == Stem(f) \o suffix \o PngExt

\* ------------------------------------------------------------------ state
VARIABLES
    self,                   \* the Upscaler object's job fields (lines 37-55)
    paths,                  \* whether ffmpeg_path / waifu2x_path exist on disk
    ceiling,                \* the threads argument given to the constructor
    pc,                     \* position of the main thread in run / _upscale_frames
    error,                  \* exception that ended run, "none" otherwise
    spawned,                \* external processes spawned so far
    extracted,              \* frames lying flat in self.extracted_frames
    frames,                 \* local list frames of _upscale_frames
    folders,                \* partition folder id -> frames moved into it
    thread_folders,         \* local list thread_folders
    thread_pool,            \* local list thread_pool (folder ids, rotated)
    upscaler_threads,       \* local list upscaler_threads (thread names)
    idx,                    \* index of the running for-loop of the main thread
    tstate,                 \* worker thread -> position in Waifu2xCaffe.upscale
    exitcode,               \* worker thread -> exit code of its engine, -1 before
    print_lock,             \* holder of Waifu2xCaffe.print_lock, -1 when free
    log,                    \* debug messages printed by the workers
    dest,                   \* file names in self.upscaled_frames
    suffix,                 \* suffix the single-invocation engine appends
    images,                 \* list the rename loop iterates over
    progress_bar_exit_signal,
    mpc,                    \* position of the monitor thread in _progress_bar
    total_frames,
    previous_cycle_frames,
    updated,                \* sum of the deltas passed to progress_bar.update
    not_found,              \* the last poll ended in the except branch (line 133)
    dest_exists,            \* the directory self.upscaled_frames exists
    started,                \* worker thread -> number of thread.start() calls
    upscale_calls           \* number of engine invocations (w2.upscale) so far

vars == <<self, paths, ceiling, pc, error, spawned, extracted, frames, folders,
          thread_folders, thread_pool, upscaler_threads, idx, tstate, exitcode,
          print_lock, log, dest, suffix, images, progress_bar_exit_signal, mpc,
          total_frames, previous_cycle_frames, updated, not_found, dest_exists,
          started, upscale_calls>>

mainVars == <<self, paths, ceiling, pc, error, spawned, extracted, frames,
              folders, thread_folders, thread_pool, upscaler_threads, idx,
              suffix, images, progress_bar_exit_signal, upscale_calls>>
workerVars == <<tstate, exitcode, print_lock, log, started>>
monitorVars == <<mpc, total_frames, previous_cycle_frames, updated, not_found>>

Workers == 0..(MaxThreads - 1)

CodedWidth == 1
CodedHeight == 1

RECURSIVE SeqOfSet(_)
\* a list of the elements of S in the order os.listdir happens to give
SeqOfSet(S) ==
    IF S = {} THEN <<>>
    ELSE LET x == CHOOSE y \in S : TRUE IN <<x>> \o SeqOfSet(S \ {x})

Range(q) == {q[i] : i \in 1..Len(q)}

\* names of the frames in a set of frame numbers
FolderNames(S) == {FrameName(f) : f \in S}

Init ==
    /\ self \in [waifu2x_driver : Drivers,
                 model_type : {"cunet", "bogus"},
                 input_video : {"", "in.mp4"},
                 output_video : {"", "out.mp4"},
                 method : {"", "gpu"},
                 output_width : {0, 4},
                 output_height : {0, 4},
                 ratio : {0, 2},
                 threads : 1..MaxThreads]
    /\ paths \in [ffmpeg_isdir : BOOLEAN, waifu2x_exists : BOOLEAN]
    /\ ceiling = self.threads
    /\ pc = "run"
    /\ error = "none"
    /\ spawned = {}
    /\ extracted = {}
    /\ frames = <<>>
    /\ folders = <<>>
    /\ thread_folders = <<>>
    /\ thread_pool = <<>>
    /\ upscaler_threads = <<>>
    /\ idx = 0
    /\ tstate = [w \in Workers |-> "none"]
    /\ exitcode = [w \in Workers |-> -1]
    /\ print_lock = -1
    /\ log = {}
    /\ dest = {}
    /\ suffix = <<>>
    /\ images = <<>>
    /\ progress_bar_exit_signal = FALSE
    /\ mpc = "none"
    /\ total_frames = 0
    /\ previous_cycle_frames = 0
    /\ updated = 0
    /\ not_found = FALSE
    /\ dest_exists = TRUE
    /\ started = [w \in Workers |-> 0]
    /\ upscale_calls = 0

\* ------------------------------------------------------------- validation
\* _check_model_type
CheckModelType(s) ==
    IF s.model_type \notin MODELS_AVAILABLE THEN "InvalidModelType" ELSE "none"

\* a variant of CheckArguments that asks for one missing dimension only when
\* the other is missing too
CheckArgumentsBothMissing(s) ==
    IF s.input_video = "" THEN "ArgumentError"
    ELSE IF (s.output_width = 0 /\ s.output_height = 0) /\ s.ratio = 0
         THEN "ArgumentError"
    ELSE IF s.output_video = "" THEN "ArgumentError"
    ELSE IF s.method = "" THEN "ArgumentError"
    ELSE "none"

\* _check_arguments
CheckArguments(s) ==
    IF s.input_video = "" THEN "ArgumentError"
    ELSE IF (s.output_width = 0 \/ s.output_height = 0) /\ s.ratio = 0
         THEN "ArgumentError"
    ELSE IF s.output_video = "" THEN "ArgumentError"
    ELSE IF s.method = "" THEN "ArgumentError"
    ELSE "none"

\* the checks of run in the order the code makes them: the first exception
RunChecks(s, p) ==
    IF CheckModelType(s) # "none" THEN CheckModelType(s)
    ELSE IF CheckArguments(s) # "none" THEN CheckArguments(s)
    ELSE IF ~p.ffmpeg_isdir THEN "FileNotFoundError"
    ELSE IF ~p.waifu2x_exists THEN "FileNotFoundError"
    ELSE "none"

\* run, lines 235-262: the checks, then the Ffmpeg and driver objects
Validate ==
    /\ pc = "run"
    /\ error' = RunChecks(self, paths)
    /\ pc' = IF RunChecks(self, paths) # "none" THEN "failed" ELSE "extract"
    /\ UNCHANGED <<self, paths, ceiling, spawned, extracted, frames, folders,
                   thread_folders, thread_pool, upscaler_threads, idx, suffix,
                   images, progress_bar_exit_signal,
                   upscale_calls>>
    /\ UNCHANGED <<workerVars, monitorVars, dest,
                   dest_exists>>

\* run, line 265: fm.extract_frames writes the frames 1..F as .png files
ExtractFrames ==
    /\ pc = "extract"
    /\ spawned' = spawned \cup {"ffmpeg_extract"}
    /\ \E F \in 0..MaxFrames : extracted' = 1..F
    /\ pc' = "probe"
    /\ UNCHANGED <<self, paths, ceiling, error, frames, folders, thread_folders,
                   thread_pool, upscaler_threads, idx, suffix, images,
                   progress_bar_exit_signal,
                   upscale_calls>>
    /\ UNCHANGED <<workerVars, monitorVars, dest,
                   dest_exists>>

\* run, lines 268-286: fm.get_video_info; exit(1) when no video stream
ProbeVideo ==
    /\ pc = "probe"
    /\ spawned' = spawned \cup {"ffprobe"}
    /\ \E video_stream_found \in BOOLEAN :
          IF video_stream_found
          THEN pc' = "sizes" /\ error' = error
          ELSE pc' = "failed" /\ error' = "SystemExit"
    /\ UNCHANGED <<self, paths, ceiling, extracted, frames, folders,
                   thread_folders, thread_pool, upscaler_threads, idx, suffix,
                   images, progress_bar_exit_signal,
                   upscale_calls>>
    /\ UNCHANGED <<workerVars, monitorVars, dest,
                   dest_exists>>

\* run, lines 289-293: with a ratio the output size is ratio x coded size
OutputSize ==
    /\ pc = "sizes"
    /\ self' = IF self.ratio # 0
               THEN [self EXCEPT !.output_width = self.ratio * CodedWidth,
                                 !.output_height = self.ratio * CodedHeight]
               ELSE self
    /\ pc' = "upscale"
    /\ UNCHANGED <<paths, ceiling, error, spawned, extracted, frames, folders,
                   thread_folders, thread_pool, upscaler_threads, idx, suffix,
                   images, progress_bar_exit_signal,
                   upscale_calls>>
    /\ UNCHANGED <<workerVars, monitorVars, dest,
                   dest_exists>>

\* _upscale_frames, lines 149-153: clear the exit signal, pick the path
UpscaleEnter ==
    /\ pc = "upscale"
    /\ progress_bar_exit_signal' = FALSE
    /\ pc' = IF self.waifu2x_driver = "waifu2x_converter"
             THEN "c_monitor" ELSE "list"
    /\ UNCHANGED <<self, paths, ceiling, error, spawned, extracted, frames,
                   folders, thread_folders, thread_pool, upscaler_threads, idx,
                   suffix, images,
                   upscale_calls>>
    /\ UNCHANGED <<workerVars, monitorVars, dest,
                   dest_exists>>
\* ------------------------------------------- per-worker path: distribution
\* a variant of Clamp that keeps the configured thread count
ClampNone(threads, n) == threads

\* a variant of Clamp that always takes the number of frames
ClampToFrames(threads, n) == n

\* lines 175-176: if len(frames) < self.threads: self.threads = len(frames)
Clamp(threads, n) == IF n < threads THEN n ELSE threads

\* a variant of Rotate that leaves the pool as it is
RotateNone(tp) == tp

\* thread_pool[-1:] + thread_pool[:-1]
Rotate(tp) ==
    IF tp = <<>> THEN <<>> ELSE <<tp[Len(tp)]>> \o SubSeq(tp, 1, Len(tp) - 1)

\* a variant of MoveLoopDone that leaves the loop one image early
MoveLoopDoneEarly(i, fr) == i >= Len(fr)

\* the for-loop of line 197 has gone through every image of frames
MoveLoopDone(i, fr) == i > Len(fr)

\* lines 171-176: list the images, clamp the thread count
ListFrames ==
    /\ pc = "list"
    /\ frames' = SeqOfSet(extracted)
    /\ self' = [self EXCEPT !.threads = Clamp(self.threads, Cardinality(extracted))]
    /\ pc' = "mkdir"
    /\ UNCHANGED <<paths, ceiling, error, spawned, extracted, folders,
                   thread_folders, thread_pool, upscaler_threads, idx, suffix,
                   images, progress_bar_exit_signal,
                   upscale_calls>>
    /\ UNCHANGED <<workerVars, monitorVars, dest,
                   dest_exists>>

\* lines 181-193: one fresh folder per thread id
MakeFolders ==
    /\ pc = "mkdir"
    /\ folders' = [i \in 0..(self.threads - 1) |-> {}]
    /\ thread_folders' = [i \in 1..self.threads |-> i - 1]
    /\ thread_pool' = [i \in 1..self.threads |-> i - 1]
    /\ idx' = 1
    /\ pc' = "move"
    /\ UNCHANGED <<self, paths, ceiling, error, spawned, extracted, frames,
                   upscaler_threads, suffix, images, progress_bar_exit_signal,
                   upscale_calls>>
    /\ UNCHANGED <<workerVars, monitorVars, dest,
                   dest_exists>>

\* lines 197-201: move one image into the first folder of the pool, rotate
MoveImage ==
    /\ pc = "move"
    /\ ~MoveLoopDone(idx, frames)
    /\ thread_pool # <<>>
    /\ folders' = [folders EXCEPT ![thread_pool[1]] = @ \cup {frames[idx]}]
    /\ extracted' = extracted \ {frames[idx]}
    /\ thread_pool' = Rotate(thread_pool)
    /\ idx' = idx + 1
    /\ UNCHANGED <<self, paths, ceiling, pc, error, spawned, frames,
                   thread_folders, upscaler_threads, suffix, images,
                   progress_bar_exit_signal,
                   upscale_calls>>
    /\ UNCHANGED <<workerVars, monitorVars, dest,
                   dest_exists>>

\* a variant of ThreadTargets that binds every thread to the head of the pool
ThreadTargetsHead(tp) == [i \in 1..Len(tp) |-> tp[1]]

\* lines 204-210: the folder (and name) each new thread gets, one thread per
\* thread_info in thread_pool
ThreadTargets(tp) == tp

\* lines 204-210: one thread object per entry of thread_pool
CreateThreads ==
    /\ pc = "move"
    /\ MoveLoopDone(idx, frames)
    /\ upscaler_threads' = ThreadTargets(thread_pool)
    /\ tstate' = [w \in Workers |-> IF w \in Range(ThreadTargets(thread_pool))
                                    THEN "new" ELSE "none"]
    /\ pc' = "start_monitor"
    /\ UNCHANGED <<self, paths, ceiling, error, spawned, extracted, frames,
                   folders, thread_folders, thread_pool, idx, suffix, images,
                   progress_bar_exit_signal,
                   upscale_calls>>
    /\ UNCHANGED <<exitcode, print_lock, log, monitorVars, dest,
                   dest_exists, started>>

\* lines 213-214: start the progress bar thread
StartMonitor ==
    /\ pc = "start_monitor"
    /\ mpc' = "init"
    /\ idx' = 1
    /\ pc' = "start_threads"
    /\ UNCHANGED <<self, paths, ceiling, error, spawned, extracted, frames,
                   folders, thread_folders, thread_pool, upscaler_threads,
                   suffix, images, progress_bar_exit_signal,
                   upscale_calls>>
    /\ UNCHANGED <<workerVars, total_frames, previous_cycle_frames, updated, dest,
                   dest_exists, not_found>>

\* lines 217-218: thread.start() for the next thread; then on to the joins
StartThread ==
    /\ pc = "start_threads"
    /\ IF idx <= Len(upscaler_threads)
       THEN /\ tstate' = [tstate EXCEPT ![upscaler_threads[idx]] = "start"]
            /\ started' = [started EXCEPT ![upscaler_threads[idx]] = @ + 1]
            /\ idx' = idx + 1
            /\ pc' = pc
       ELSE /\ tstate' = tstate
            /\ started' = started
            /\ idx' = 1
            /\ pc' = "join"
    /\ UNCHANGED <<self, paths, ceiling, error, spawned, extracted, frames,
                   folders, thread_folders, thread_pool, upscaler_threads,
                   suffix, images, progress_bar_exit_signal,
                   upscale_calls>>
    /\ UNCHANGED <<exitcode, print_lock, log, monitorVars, dest,
                   dest_exists>>

\* a variant of JoinThread that returns from join without waiting
JoinThreadNoWait ==
    /\ pc = "join"
    /\ idx <= Len(upscaler_threads)
    /\ idx' = idx + 1
    /\ UNCHANGED <<self, paths, ceiling, pc, error, spawned, extracted, frames,
                   folders, thread_folders, thread_pool, upscaler_threads,
                   suffix, images, progress_bar_exit_signal,
                   upscale_calls>>
    /\ UNCHANGED <<workerVars, monitorVars, dest,
                   dest_exists>>

\* lines 221-222: thread.join() returns once the thread has ended, whether
\* its target returned or raised
JoinThread ==
    /\ pc = "join"
    /\ idx <= Len(upscaler_threads)
    /\ tstate[upscaler_threads[idx]] \in {"returned", "raised"}
    /\ idx' = idx + 1
    /\ UNCHANGED <<self, paths, ceiling, pc, error, spawned, extracted, frames,
                   folders, thread_folders, thread_pool, upscaler_threads,
                   suffix, images, progress_bar_exit_signal,
                   upscale_calls>>
    /\ UNCHANGED <<workerVars, monitorVars, dest,
                   dest_exists>>

\* a variant of SetExitSignal that returns without setting the signal
SetExitSignalForgotten ==
    /\ pc = "join"
    /\ idx > Len(upscaler_threads)
    /\ pc' = "convert"
    /\ UNCHANGED <<self, paths, ceiling, error, spawned, extracted, frames,
                   folders, thread_folders, thread_pool, upscaler_threads, idx,
                   suffix, images, progress_bar_exit_signal, upscale_calls>>
    /\ UNCHANGED <<workerVars, monitorVars, dest, dest_exists>>

\* line 224: set the exit signal; _upscale_frames returns to run (line 298)
SetExitSignal ==
    /\ pc = "join"
    /\ idx > Len(upscaler_threads)
    /\ progress_bar_exit_signal' = TRUE
    /\ pc' = "convert"
    /\ UNCHANGED <<self, paths, ceiling, error, spawned, extracted, frames,
                   folders, thread_folders, thread_pool, upscaler_threads, idx,
                   suffix, images,
                   upscale_calls>>
    /\ UNCHANGED <<workerVars, monitorVars, dest,
                   dest_exists>>

\* ------------------------------------------------- Waifu2xCaffe.upscale
\* lines 43: print_lock.acquire() before the start message
WorkerAcquireStart(w) ==
    /\ tstate[w] = "start"
    /\ print_lock = -1
    /\ print_lock' = w
    /\ tstate' = [tstate EXCEPT ![w] = "start_locked"]
    /\ UNCHANGED <<mainVars, monitorVars, exitcode, log, dest,
                   dest_exists, started>>

\* a variant of WorkerPrintStart that goes on without releasing print_lock
WorkerPrintStartNoRelease(w) ==
    /\ tstate[w] = "start_locked"
    /\ log' = log \cup {<<w, "started">>}
    /\ tstate' = [tstate EXCEPT ![w] = "execute"]
    /\ UNCHANGED <<mainVars, monitorVars, exitcode, print_lock, dest,
                   dest_exists, started>>

\* lines 44-45: the start message, print_lock.release()
WorkerPrintStart(w) ==
    /\ tstate[w] = "start_locked"
    /\ log' = log \cup {<<w, "started">>}
    /\ print_lock' = -1
    /\ tstate' = [tstate EXCEPT ![w] = "execute"]
    /\ UNCHANGED <<mainVars, monitorVars, exitcode, dest,
                   dest_exists, started>>

\* lines 49-52: subprocess.run starts the engine on the thread's folder
WorkerExecute(w) ==
    /\ tstate[w] = "execute"
    /\ spawned' = spawned \cup {"waifu2x"}
    /\ upscale_calls' = upscale_calls + 1
    /\ tstate' = [tstate EXCEPT ![w] = "engine"]
    /\ UNCHANGED <<self, paths, ceiling, pc, error, extracted, frames, folders,
                   thread_folders, thread_pool, upscaler_threads, idx, suffix,
                   images, progress_bar_exit_signal>>
    /\ UNCHANGED <<monitorVars, exitcode, print_lock, log, dest,
                   dest_exists, started>>

\* frames of folder w the engine has not written to the destination yet
Unwritten(w) == {f \in folders[w] : FrameName(f) \notin dest}

\* the engine writes the output of one more image of its folder, under the
\* image's own name (making the output folder if it is missing)
EngineWrite(w) ==
    /\ tstate[w] = "engine"
    /\ Unwritten(w) # {}
    /\ dest' = dest \cup {FrameName(CHOOSE f \in Unwritten(w) :
                                        \A g \in Unwritten(w) : f <= g)}
    /\ dest_exists' = TRUE
    /\ UNCHANGED <<mainVars, monitorVars, workerVars>>

\* a variant of CheckedRun that ignores the exit code (check=False)
UncheckedRun(code) == "exit"

\* subprocess.run(..., check=True): where upscale goes on after the engine
CheckedRun(code) == IF code # 0 THEN "raised" ELSE "exit"

\* line 52: the engine exits, with zero only after it has written every
\* image, with non-zero at any point
EngineExit(w) ==
    /\ tstate[w] = "engine"
    /\ \E code \in {0, 1} :
          /\ code = 0 => Unwritten(w) = {}
          /\ exitcode' = [exitcode EXCEPT ![w] = code]
          /\ tstate' = [tstate EXCEPT ![w] = CheckedRun(code)]
    /\ UNCHANGED <<mainVars, monitorVars, print_lock, log, dest,
                   dest_exists, started>>

\* line 55: print_lock.acquire() before the exit message
WorkerAcquireExit(w) ==
    /\ tstate[w] = "exit"
    /\ print_lock = -1
    /\ print_lock' = w
    /\ tstate' = [tstate EXCEPT ![w] = "exit_locked"]
    /\ UNCHANGED <<mainVars, monitorVars, exitcode, log, dest,
                   dest_exists, started>>

\* lines 56-57: the exiting message, print_lock.release(), return
WorkerPrintExit(w) ==
    /\ tstate[w] = "exit_locked"
    /\ log' = log \cup {<<w, "exiting">>}
    /\ print_lock' = -1
    /\ tstate' = [tstate EXCEPT ![w] = "returned"]
    /\ UNCHANGED <<mainVars, monitorVars, exitcode, dest,
                   dest_exists, started>>
\* ----------------------------------------------------------- _progress_bar
\* a variant of TotalPng that counts the first folder only
TotalPngFirstOnly(flds, contents) ==
    IF flds = <<>> THEN 0 ELSE CountPng(FolderNames(contents[Head(flds)]))

RECURSIVE TotalPng(_, _)
\* lines 110-112: total_frames summed over extracted_frames_folders
TotalPng(flds, contents) ==
    IF flds = <<>> THEN 0
    ELSE CountPng(FolderNames(contents[Head(flds)])) + TotalPng(Tail(flds), contents)

\* lines 110-112, at the start of the monitor thread
MonitorInit ==
    /\ mpc = "init"
    /\ total_frames' = IF self.waifu2x_driver = "waifu2x_converter"
                       THEN CountPng(FolderNames(extracted))
                       ELSE TotalPng(thread_folders, folders)
    /\ previous_cycle_frames' = 0
    /\ mpc' = "check"
    /\ UNCHANGED <<mainVars, workerVars, updated, dest,
                   dest_exists, not_found>>

\* line 120 (after the sleep of line 136): while not self.progress_bar_exit_signal
MonitorCheck ==
    /\ mpc = "check"
    /\ mpc' = IF progress_bar_exit_signal THEN "done" ELSE "poll"
    /\ UNCHANGED <<mainVars, workerVars, total_frames, previous_cycle_frames,
                   updated, dest,
                   dest_exists, not_found>>

\* a variant of Finished that is satisfied one frame early
FinishedOneEarly(upscaled, total) == upscaled + 1 >= total

\* line 128: if total_frames_upscaled >= total_frames
Finished(upscaled, total) == upscaled >= total

\* a variant of ListdirRaises in which a missing directory lists as empty
ListdirNeverRaises(exists) == FALSE

\* os.listdir raises FileNotFoundError on a directory that does not exist
ListdirRaises(exists) == ~exists

\* lines 122-134: one poll of the destination directory; a missing
\* directory ends the poll in the except branch
MonitorPoll ==
    /\ mpc = "poll"
    /\ IF ListdirRaises(dest_exists)
       THEN /\ not_found' = TRUE
            /\ mpc' = "check"
            /\ UNCHANGED <<previous_cycle_frames, updated>>
       ELSE LET total_frames_upscaled == CountPng(dest)
                delta == total_frames_upscaled - previous_cycle_frames
            IN  /\ not_found' = FALSE
                /\ previous_cycle_frames' = total_frames_upscaled
                /\ IF Finished(total_frames_upscaled, total_frames)
                   THEN mpc' = "done" /\ updated' = updated
                   ELSE mpc' = "check" /\ updated' = updated + delta
    /\ UNCHANGED <<mainVars, workerVars, total_frames, dest,
                   dest_exists>>

\* -------------------------------------------------- single-invocation path
\* lines 155-156: start the progress bar thread over the flat input folder
ConverterStartMonitor ==
    /\ pc = "c_monitor"
    /\ mpc' = "init"
    /\ pc' = "c_upscale"
    /\ UNCHANGED <<self, paths, ceiling, error, spawned, extracted, frames,
                   folders, thread_folders, thread_pool, upscaler_threads, idx,
                   suffix, images, progress_bar_exit_signal,
                   upscale_calls>>
    /\ UNCHANGED <<workerVars, total_frames, previous_cycle_frames, updated, dest,
                   dest_exists, not_found>>

\* line 158: w2.upscale starts the engine once over the whole input folder
ConverterExecute ==
    /\ pc = "c_upscale"
    /\ spawned' = spawned \cup {"waifu2x"}
    /\ suffix' \in EngineSuffixes
    /\ upscale_calls' = upscale_calls + 1
    /\ pc' = "c_engine"
    /\ UNCHANGED <<self, paths, ceiling, error, extracted, frames, folders,
                   thread_folders, thread_pool, upscaler_threads, idx, images,
                   progress_bar_exit_signal>>
    /\ UNCHANGED <<workerVars, monitorVars, dest,
                   dest_exists>>

\* frames the single-invocation engine has not written yet
ConverterUnwritten == {f \in extracted : OutputName(f, suffix) \notin dest}

\* the engine writes the output of one more image, under the suffixed name
ConverterWrite ==
    /\ pc = "c_engine"
    /\ ConverterUnwritten # {}
    /\ dest' = dest \cup {OutputName(CHOOSE f \in ConverterUnwritten :
                                  \A g \in ConverterUnwritten : f <= g, suffix)}
    /\ dest_exists' = TRUE
    /\ UNCHANGED <<mainVars, workerVars, monitorVars>>

\* the engine exits; a non-zero exit raises out of w2.upscale and out of run
ConverterExit ==
    /\ pc = "c_engine"
    /\ \E code \in {0, 1} :
          /\ code = 0 => ConverterUnwritten = {}
          /\ IF code = 0
             THEN pc' = "c_list" /\ error' = error
             ELSE pc' = "failed" /\ error' = "CalledProcessError"
    /\ UNCHANGED <<self, paths, ceiling, spawned, extracted, frames, folders,
                   thread_folders, thread_pool, upscaler_threads, idx, suffix,
                   images, progress_bar_exit_signal,
                   upscale_calls>>
    /\ UNCHANGED <<workerVars, monitorVars, dest,
                   dest_exists>>

\* line 159: the list of files the rename loop goes through; os.listdir
\* raises out of run when the destination directory is missing
ConverterListImages ==
    /\ pc = "c_list"
    /\ IF ListdirRaises(dest_exists)
       THEN /\ pc' = "failed"
            /\ error' = "FileNotFoundError"
            /\ UNCHANGED <<images, idx>>
       ELSE /\ images' = SeqOfSet(dest)
            /\ idx' = 1
            /\ pc' = "c_rename"
            /\ error' = error
    /\ UNCHANGED <<self, paths, ceiling, spawned, extracted, frames,
                   folders, thread_folders, thread_pool, upscaler_threads,
                   suffix, progress_bar_exit_signal,
                   upscale_calls>>
    /\ UNCHANGED <<workerVars, monitorVars, dest,
                   dest_exists>>

\* lines 160-161: rename one image (shutil.move inside the destination)
ConverterRename ==
    /\ pc = "c_rename"
    /\ idx <= Len(images)
    /\ dest' = (dest \ {images[idx]}) \cup {Renamed(images[idx])}
    /\ idx' = idx + 1
    /\ UNCHANGED <<self, paths, ceiling, pc, error, spawned, extracted, frames,
                   folders, thread_folders, thread_pool, upscaler_threads,
                   suffix, images, progress_bar_exit_signal,
                   upscale_calls>>
    /\ UNCHANGED <<workerVars, monitorVars, dest_exists>>

\* line 163: set the exit signal after the last rename
ConverterSetExitSignal ==
    /\ pc = "c_rename"
    /\ idx > Len(images)
    /\ progress_bar_exit_signal' = TRUE
    /\ pc' = "c_join"
    /\ UNCHANGED <<self, paths, ceiling, error, spawned, extracted, frames,
                   folders, thread_folders, thread_pool, upscaler_threads, idx,
                   suffix, images,
                   upscale_calls>>
    /\ UNCHANGED <<workerVars, monitorVars, dest,
                   dest_exists>>

\* a variant of ConverterJoinMonitor without the return of line 165: the
\* branch falls through to the per-worker code
ConverterJoinMonitorFallThrough ==
    /\ pc = "c_join"
    /\ mpc = "done"
    /\ pc' = "list"
    /\ UNCHANGED <<self, paths, ceiling, error, spawned, extracted, frames,
                   folders, thread_folders, thread_pool, upscaler_threads, idx,
                   suffix, images, progress_bar_exit_signal, upscale_calls>>
    /\ UNCHANGED <<workerVars, monitorVars, dest, dest_exists>>

\* lines 164-165: progress_bar.join(), return to run (line 298)
ConverterJoinMonitor ==
    /\ pc = "c_join"
    /\ mpc = "done"
    /\ pc' = "convert"
    /\ UNCHANGED <<self, paths, ceiling, error, spawned, extracted, frames,
                   folders, thread_folders, thread_pool, upscaler_threads, idx,
                   suffix, images, progress_bar_exit_signal,
                   upscale_calls>>
    /\ UNCHANGED <<workerVars, monitorVars, dest,
                   dest_exists>>

\* ------------------------------------------------------------ environment
\* the still empty destination directory is removed from outside the program
RemoveDestination ==
    /\ dest_exists
    /\ dest = {}
    /\ pc \notin {"run", "failed", "done"}
    /\ dest_exists' = FALSE
    /\ UNCHANGED <<mainVars, workerVars, monitorVars, dest>>

\* ------------------------------------------------------------- reassembly
\* run, lines 298-305: fm.convert_video over the upscaled frames
ConvertVideo ==
    /\ pc = "convert"
    /\ spawned' = spawned \cup {"ffmpeg_convert"}
    /\ pc' = "migrate"
    /\ UNCHANGED <<self, paths, ceiling, error, extracted, frames, folders,
                   thread_folders, thread_pool, upscaler_threads, idx, suffix,
                   images, progress_bar_exit_signal,
                   upscale_calls>>
    /\ UNCHANGED <<workerVars, monitorVars, dest,
                   dest_exists>>

\* run, lines 308-309: fm.migrate_audio_tracks_subtitles, end of run
MigrateAudio ==
    /\ pc = "migrate"
    /\ spawned' = spawned \cup {"ffmpeg_migrate"}
    /\ pc' = "done"
    /\ UNCHANGED <<self, paths, ceiling, error, extracted, frames, folders,
                   thread_folders, thread_pool, upscaler_threads, idx, suffix,
                   images, progress_bar_exit_signal,
                   upscale_calls>>
    /\ UNCHANGED <<workerVars, monitorVars, dest,
                   dest_exists>>

\* ---------------------------------------------------------- specification
Next ==
    \/ Validate
    \/ ExtractFrames
    \/ ProbeVideo
    \/ OutputSize
    \/ UpscaleEnter
    \/ ListFrames
    \/ MakeFolders
    \/ MoveImage
    \/ CreateThreads
    \/ StartMonitor
    \/ StartThread
    \/ JoinThread
    \/ SetExitSignal
    \/ \E w \in Workers : WorkerAcquireStart(w)
    \/ \E w \in Workers : WorkerPrintStart(w)
    \/ \E w \in Workers : WorkerExecute(w)
    \/ \E w \in Workers : EngineWrite(w)
    \/ \E w \in Workers : EngineExit(w)
    \/ \E w \in Workers : WorkerAcquireExit(w)
    \/ \E w \in Workers : WorkerPrintExit(w)
    \/ MonitorInit
    \/ MonitorCheck
    \/ MonitorPoll
    \/ ConverterStartMonitor
    \/ ConverterExecute
    \/ ConverterWrite
    \/ ConverterExit
    \/ ConverterListImages
    \/ ConverterRename
    \/ ConverterSetExitSignal
    \/ ConverterJoinMonitor
    \/ ConvertVideo
    \/ MigrateAudio
    \/ RemoveDestination

Spec == Init /\ [][Next]_vars

\* ------------------------------------------------- threads and fairness
\* the steps of the main thread in run and in the per-worker path of
\* _upscale_frames
MainNext ==
    \/ Validate
    \/ ExtractFrames
    \/ ProbeVideo
    \/ OutputSize
    \/ UpscaleEnter
    \/ ListFrames
    \/ MakeFolders
    \/ MoveImage
    \/ CreateThreads
    \/ StartMonitor
    \/ StartThread
    \/ JoinThread
    \/ SetExitSignal
    \/ ConvertVideo
    \/ MigrateAudio

\* the steps of worker thread w, its engine process included
WorkerNext(w) ==
    \/ WorkerAcquireStart(w)
    \/ WorkerPrintStart(w)
    \/ WorkerExecute(w)
    \/ EngineWrite(w)
    \/ EngineExit(w)
    \/ WorkerAcquireExit(w)
    \/ WorkerPrintExit(w)

\* the steps of the progress bar thread
MonitorNext == MonitorInit \/ MonitorCheck \/ MonitorPoll

\* in the per-worker path every started thread keeps running and every
\* engine process ends; nothing is assumed of the single-invocation branch
\* or of the environment
FairSpec ==
    /\ Spec
    /\ WF_vars(MainNext)
    /\ \A w \in Workers : WF_vars(WorkerNext(w))
    /\ WF_vars(MonitorNext)

\* ------------------------------------------------------- shared predicates
Caffe == self.waifu2x_driver = "waifu2x_caffe"
Converter == self.waifu2x_driver = "waifu2x_converter"

\* _upscale_frames has returned to run
Returned == pc \in {"convert", "migrate", "done"}

\* per-worker path, after the distribution loop of lines 197-201
Distributed ==
    Caffe /\ (pc \in {"start_monitor", "start_threads", "join"} \/ Returned)

\* per-worker path, after the join loop of lines 221-222
Joined == Caffe /\ ((pc = "join" /\ idx > Len(upscaler_threads)) \/ Returned)

\* single-invocation path, after the rename loop of lines 159-161
ConverterRenamed ==
    Converter /\ ((pc = "c_rename" /\ idx > Len(images)) \/ pc = "c_join" \/ Returned)

\* every engine run of the job exited with code zero and run went on
Succeeded ==
    /\ Returned
    /\ Caffe => \A i \in 1..Len(upscaler_threads) :
                    exitcode[upscaler_threads[i]] = 0

\* ------------------------------------------------------------------ claims

\* C1: after the distribution step of the per-worker path the number of
\* partition folders is min(N, F), the folders are pairwise disjoint, their
\* union is the set of frames that was listed, and no frame is left in the
\* flat input directory.
C1_PartitionsCoverFrames ==
    Distributed =>
        /\ Cardinality(DOMAIN folders) = Min(ceiling, Len(frames))
        /\ UNION {folders[i] : i \in DOMAIN folders} = Range(frames)
        /\ \A i, j \in DOMAIN folders : i # j => folders[i] \cap folders[j] = {}
        /\ Cardinality(Range(frames)) = Len(frames)
        /\ extracted = {}

C1_Witness ==
    /\ Distributed
    /\ Len(frames) = 3
    /\ ceiling = 2
    /\ Cardinality(DOMAIN folders) = 2
    /\ UNION {folders[i] : i \in DOMAIN folders} = 1..3

\* C2: if one worker's engine exits non-zero (its upscale raises), run never
\* reaches reassembly (convert_video) and never completes.
C2_FailTogether ==
    (\E w \in Workers : tstate[w] = "raised") =>
        ("ffmpeg_convert" \notin spawned /\ pc # "done")

\* the job fails one of the checks the claim lists
C3_Invalid ==
    \/ self.model_type \notin MODELS_AVAILABLE
    \/ self.input_video = ""
    \/ (self.output_width = 0 \/ self.output_height = 0) /\ self.ratio = 0
    \/ ~paths.ffmpeg_isdir
    \/ ~paths.waifu2x_exists

\* C3: a job that fails a check of run is rejected with an error before any
\* external process is spawned, any partition folder is made or any frame
\* exists to be moved.
C3_InvalidJobFailsFast ==
    C3_Invalid =>
        /\ pc \in {"run", "failed"}
        /\ pc = "failed" => error \in {"InvalidModelType", "ArgumentError",
                                       "FileNotFoundError"}
        /\ spawned = {}
        /\ DOMAIN folders = {}
        /\ extracted = {}
        /\ dest = {}

C3_Witness ==
    /\ pc = "failed"
    /\ error = "ArgumentError"
    /\ self.model_type \in MODELS_AVAILABLE
    /\ self.input_video # ""
    /\ self.output_width # 0 /\ self.output_height = 0 /\ self.ratio = 0
    /\ spawned = {}

\* C4: in the per-worker path _upscale_frames goes past the join loop only
\* when every dispatched worker thread has ended, by return or by exception.
C4_JoinBarrier ==
    Joined =>
        \A i \in 1..Len(upscaler_threads) :
            tstate[upscaler_threads[i]] \in {"returned", "raised"}

C4_Witness ==
    /\ Joined
    /\ Returned
    /\ Len(upscaler_threads) = 2
    /\ \E v, w \in Workers : tstate[v] = "returned" /\ tstate[w] = "raised"

\* C5 (as claimed): in a successful run the monitor never stops after a last
\* observation in which the destination count was still below the total.
C5_StopsOnlyAfterTotal ==
    (Succeeded /\ mpc = "done") => previous_cycle_frames >= total_frames

\* C5 (amended): the monitor stops only after an observation that reached
\* the total or with the exit signal set, and it never polls again after an
\* observation that reached the total.
C5_StopsOnTotalOrSignal ==
    /\ mpc = "done" =>
          (previous_cycle_frames >= total_frames \/ progress_bar_exit_signal)
    /\ (mpc \in {"check", "poll"} /\ total_frames > 0) =>
          previous_cycle_frames < total_frames

C5_Witness ==
    /\ mpc = "done"
    /\ ~progress_bar_exit_signal
    /\ total_frames = 4
    /\ previous_cycle_frames = 4

\* C6: when a job succeeds, the deltas passed to progress_bar.update add up
\* to the total frame count by the time the monitor stops.
C6_FinalUpdateEqualsTotal ==
    (Succeeded /\ mpc = "done") => updated = total_frames

\* C7: successive snapshots of the monitor never decrease, also while the
\* single-invocation path renames files in the destination.
C7_SnapshotsNeverDecrease ==
    [][/\ previous_cycle_frames' >= previous_cycle_frames
       /\ updated' >= updated]_vars

C7_Witness ==
    /\ Converter
    /\ pc = "c_rename"
    /\ idx > 1
    /\ suffix = SufHyphen
    /\ mpc = "poll"
    /\ previous_cycle_frames > 0
    /\ FrameName(1) \in dest \/ FrameName(2) \in dest

\* the frames' bare names / their names under the engine's suffix
BareNames == FolderNames(extracted)
SuffixedNames == {OutputName(f, suffix) : f \in extracted}

\* C8 (as claimed): after the rename step every output file carries the bare
\* name of its frame, whatever the suffix in the _[..][x<ratio>] form was.
C8_RenameRestoresBareName ==
    ConverterRenamed => dest = BareNames

\* C8 (amended): the rename step restores the bare name when the first
\* bracket of the suffix contains a hyphen (_[NS-L3][x2.0]) and leaves a bare
\* name unchanged; a suffix without a hyphen in the first bracket, such as
\* the literal _[meta][x2.0], is left in place.
C8_RenameRestoresHyphenated ==
    ConverterRenamed =>
        IF suffix = <<>> \/ "-" \in Range(suffix)
        THEN dest = BareNames
        ELSE dest = SuffixedNames

C8_Witness ==
    /\ ConverterRenamed
    /\ suffix = SufHyphen
    /\ extracted = 1..4
    /\ dest = {FrameName(f) : f \in 1..4}

\* C9: Waifu2xCaffe.upscale goes on to its exit message and returns only
\* when the engine exited with zero; on a non-zero exit it raises and prints
\* no exiting message.
C9_ReturnsOnlyOnZeroExit ==
    \A w \in Workers :
        /\ tstate[w] \in {"exit", "exit_locked", "returned"} => exitcode[w] = 0
        /\ <<w, "exiting">> \in log => exitcode[w] = 0
        /\ exitcode[w] \notin {-1, 0} =>
              (tstate[w] = "raised" /\ <<w, "exiting">> \notin log)

C9_Witness ==
    \E v, w \in Workers :
        /\ tstate[v] = "returned" /\ exitcode[v] = 0 /\ <<v, "exiting">> \in log
        /\ tstate[w] = "raised" /\ exitcode[w] = 1

\* C10: for F >= 1 no partition folder is empty after distribution, F < N
\* gives exactly F folders, and no worker is started on an empty folder.
C10_NoEmptyPartition ==
    /\ (Distributed /\ Len(frames) >= 1) =>
          /\ \A i \in DOMAIN folders : folders[i] # {}
          /\ Len(frames) < ceiling => Cardinality(DOMAIN folders) = Len(frames)
    /\ \A w \in Workers :
          tstate[w] \notin {"none", "new"} =>
              (w \in DOMAIN folders /\ folders[w] # {})

C10_Witness ==
    /\ Distributed
    /\ pc = "join"
    /\ Len(frames) = 1
    /\ ceiling = 2
    /\ Cardinality(DOMAIN folders) = 1
    /\ \A w \in DOMAIN folders : tstate[w] # "new"

\* C11: after the round-robin distribution of the per-worker path the sizes
\* of any two partition folders differ by at most one frame.
C11_BalancedPartitions ==
    Distributed =>
        \A i, j \in DOMAIN folders :
            Cardinality(folders[i]) - Cardinality(folders[j]) <= 1

C11_Witness ==
    /\ Distributed
    /\ Len(frames) = 3
    /\ Cardinality(DOMAIN folders) = 2
    /\ \E i \in DOMAIN folders : Cardinality(folders[i]) = 2
    /\ \E j \in DOMAIN folders : Cardinality(folders[j]) = 1

\* C12: in the per-worker path the monitor thread, once started, eventually
\* terminates, whether the workers succeed or fail.
C12_MonitorTerminates ==
    (Caffe /\ mpc = "init") ~> (mpc = "done")

C12_Witness ==
    /\ Caffe
    /\ mpc = "done"
    /\ progress_bar_exit_signal
    /\ previous_cycle_frames < total_frames
    /\ \E w \in Workers : tstate[w] = "raised"

\* C13: a poll that finds the destination directory missing emits no
\* update, leaves the previous snapshot unchanged and does not end the
\* monitor: it goes back to the sleep and the loop test.
C13_MissingDestinationTolerated ==
    [][(mpc = "poll" /\ ~dest_exists /\ mpc' # mpc) =>
          /\ mpc' = "check"
          /\ not_found'
          /\ updated' = updated
          /\ previous_cycle_frames' = previous_cycle_frames]_vars

C13_Witness ==
    /\ mpc = "check"
    /\ not_found
    /\ ~dest_exists
    /\ total_frames > 0
    /\ updated = 0

\* what holds of every state of a run with the waifu2x_converter driver
C14_State ==
    /\ DOMAIN folders = {}
    /\ frames = <<>> /\ thread_pool = <<>> /\ upscaler_threads = <<>>
    /\ pc \notin {"list", "mkdir", "move", "start_monitor", "start_threads", "join"}
    /\ \A w \in Workers : tstate[w] = "none"
    /\ self.threads = ceiling
    /\ upscale_calls <= 1
    /\ (pc \in {"c_list", "c_rename", "c_join"} \/ Returned) => upscale_calls = 1
    /\ (pc = "c_engine" /\ suffix # <<>>) => dest \cap BareNames = {}

\* C14: with the waifu2x_converter driver no partition folder is made and no
\* frame leaves the flat input directory, the driver is invoked exactly once
\* with the configured thread count, and files are renamed only after that
\* invocation has returned.
C14_SingleInvocation ==
    /\ [](Converter => C14_State)
    /\ [][(Converter /\ pc # "extract") => extracted' = extracted]_vars

C14_Witness ==
    /\ Converter
    /\ Returned
    /\ upscale_calls = 1
    /\ suffix = SufHyphenInt
    /\ extracted = 1..4
    /\ dest = BareNames

\* worker threads whose engine has been invoked
C15_Invoked ==
    {w \in Workers : tstate[w] \in {"engine", "exit", "exit_locked", "returned", "raised"}}

\* C15: in the per-worker path the thread list is a one-to-one binding of
\* the partition folders to threads although thread_pool has been rotated,
\* no thread is started twice, every thread has been started once when the
\* joins begin, and each folder's engine is invoked at most once.
C15_ExactlyOnceDispatch ==
    /\ Distributed =>
          /\ Len(upscaler_threads) = Cardinality(DOMAIN folders)
          /\ Range(upscaler_threads) = DOMAIN folders
    /\ \A w \in Workers : started[w] <= 1
    /\ (Caffe /\ (pc = "join" \/ Returned)) =>
          \A w \in DOMAIN folders : started[w] = 1
    /\ Caffe => upscale_calls = Cardinality(C15_Invoked)

C15_Witness ==
    /\ Caffe
    /\ pc = "join"
    /\ Len(frames) = 3
    /\ upscaler_threads = <<1, 0>>
    /\ thread_folders = <<0, 1>>
    /\ \A w \in DOMAIN folders : started[w] = 1
    /\ upscale_calls = 2

\* C16 (as claimed): once validation has passed, no later step modifies the
\* thread ceiling, the output size, the ratio, the model or the driver.
C16_JobImmutable ==
    [][pc # "run" =>
          /\ self'.threads = self.threads
          /\ self'.output_width = self.output_width
          /\ self'.output_height = self.output_height
          /\ self'.ratio = self.ratio
          /\ self'.model_type = self.model_type
          /\ self'.waifu2x_driver = self.waifu2x_driver]_vars

\* C16 (amended): ratio, model and driver are never modified; the thread
\* count is modified only by the clamp of lines 175-176, which lowers it to
\* the number of frames, and the output size only by lines 292-293, which
\* overwrite it with ratio x coded size when a ratio is given.
C16_JobChangesOnlyByClampAndRatio ==
    [][/\ self'.ratio = self.ratio
       /\ self'.model_type = self.model_type
       /\ self'.waifu2x_driver = self.waifu2x_driver
       /\ self'.threads # self.threads =>
             /\ pc = "list"
             /\ Caffe
             /\ Len(frames') < self.threads
             /\ self'.threads = Len(frames')
       /\ (self'.output_width # self.output_width
             \/ self'.output_height # self.output_height) =>
             /\ pc = "sizes"
             /\ self.ratio # 0
             /\ self'.output_width = self.ratio * CodedWidth
             /\ self'.output_height = self.ratio * CodedHeight]_vars

C16_Witness ==
    /\ Caffe
    /\ pc = "mkdir"
    /\ ceiling = 2
    /\ self.threads = 1
    /\ self.ratio = 2
    /\ self.output_width = 2 * CodedWidth
    /\ self.output_height = 2 * CodedHeight

\* C17: in the single-invocation path, also when the driver invocation or
\* the listing for the rename raises, the exit signal has been set by the
\* time the main thread has left run, so that the monitor can terminate.
C17_ConverterSignalsMonitor ==
    (Converter /\ mpc # "none" /\ pc \in {"failed", "done"}) =>
        progress_bar_exit_signal

\* C18: in both driver paths the monitor thread has terminated when
\* _upscale_frames has returned to run.
C18_MonitorDoneAtHandOver ==
    Returned => mpc = "done"

\* C19: in the per-worker path no monitor thread and no worker thread runs
\* before every listed frame has been moved into a partition folder, and the
\* total the monitor computes equals the number F of distributed frames.
C19_DistributionBeforeDispatch ==
    /\ (Caffe /\ (mpc # "none" \/ \E w \in Workers : tstate[w] \notin {"none", "new"})) =>
          /\ extracted = {}
          /\ UNION {folders[i] : i \in DOMAIN folders} = Range(frames)
          /\ pc \notin {"list", "mkdir", "move"}
    /\ (Caffe /\ mpc \in {"check", "poll", "done"}) => total_frames = Len(frames)

C19_Witness ==
    /\ Caffe
    /\ mpc = "poll"
    /\ total_frames = 4
    /\ Len(frames) = 4
    /\ \E w \in Workers : tstate[w] = "engine"
    /\ dest # {}

\* C20: print_lock is held by a worker exactly while it is between the
\* acquire and the release around its start or exit message: never while its
\* engine runs, and not after upscale has ended by return or by exception.
C20_PrintLockDiscipline ==
    /\ print_lock \in {-1} \cup Workers
    /\ \A w \in Workers :
          print_lock = w <=> tstate[w] \in {"start_locked", "exit_locked"}

C20_Witness ==
    \E v, w \in Workers :
        /\ v # w
        /\ tstate[v] = "engine"
        /\ tstate[w] = "engine"
        /\ print_lock = -1
        /\ log = {<<v, "started">>, <<w, "started">>}
====
